---- MODULE Spec2Model ----
(***************************************************************************)
(* A model of the trade-lifecycle engine of riley-bot: TradingBot          *)
(* (src/src/trading_bot.py), the venue client PocketOptionClient, the      *)
(* decision engine TradingAgent and the trades table of Database.          *)
(*                                                                         *)
(* Units.  Confidences and strengths are integers in thousandths           *)
(* (750 = 0.75), money is in cents (1000000 = $10000.00; a product with a  *)
(* fraction is rounded down to the cent), time is in seconds.              *)
(*                                                                         *)
(* Time.  No absolute clock is kept.  A feed task carries the time left of  *)
(* its asyncio.sleep(timeframe); a pending trade carries the time elapsed  *)
(* since its created_at, counted up to ResolveDelay + 1, after which the   *)
(* test of _resolve_trades no longer changes.  The 5 s sleeps of the main  *)
(* and executor loops are suspensions of unrecorded length: the task may   *)
(* take its next turn at any later point.  A turn of a task takes no time; *)
(* Tick moves time to the next instant at which a feed wakes or a pending  *)
(* trade reaches or passes ResolveDelay.                                   *)
(***************************************************************************)
EXTENDS Integers, Sequences, FiniteSets, TLC

\* ------------------------------------------------------------------ bounds
MaxStarts == 2        \* start() calls that launch tasks
MaxTrades == 2        \* trades accepted by the venue
NumIds == 2           \* size of the modelled part of the trade_id range
MaxDbErrors == 1      \* failures of db.update_trade_outcome

\* ------------------------------------------------------- program constants
DefaultMinConfidence == 750   \* trading_bot.py:46
MinConfidenceFloor == 500     \* trading_bot.py:214
MinConfidenceCeil == 950      \* trading_bot.py:214
MinCandles == 20              \* trading_bot.py:102
DefaultTimeframe == 60        \* trading_bot.py:35
DefaultAsset == "EURUSD_otc"  \* trading_bot.py:34
ResolveDelay == 5             \* trading_bot.py:157
PayoutPct == 85               \* trading_bot.py:159
DemoBalance == 1000000        \* pocket_option.py:35
FirstTradeId == 10000         \* pocket_option.py:142
BasePct == 20                 \* agent.py:113
MaxPct == 50                  \* agent.py:126
MinAmount == 100              \* agent.py:126 and trading_bot.py:132
HoldBelow == 650              \* agent.py:58
ConfFloor == 500              \* agent.py:56
ConfCeil == 900               \* agent.py:56
StrengthCap == 800            \* agent.py:91
CheckInterval == 14400        \* tournament.py:14
BootTime == 1000000           \* time.time() when the bot is constructed

Assets == {"EURUSD_otc", "GBPUSD_otc"}   \* the first two of client.assets

TradeIds == FirstTradeId .. (FirstTradeId + NumIds - 1)

\* ------------------------------------------------------------------ helpers
Max(a, b) == IF a >= b THEN a ELSE b
Min(a, b) == IF a <= b THEN a ELSE b
Abs(a) == IF a >= 0 THEN a ELSE -a

\* ------------------------------------------------------------ TradingAgent
\* A tiering whose top tier falls back to the base percentage.
TierPctDropsAtTop(confidence) ==
    IF confidence < 600 THEN BasePct \div 2
    ELSE IF confidence < 700 THEN BasePct
    ELSE IF confidence < 800 THEN (BasePct * 3) \div 2
    ELSE BasePct

\* The percentage tier of get_trade_amount, in thousandths of the balance.
TierPct(confidence) ==
    IF confidence < 600 THEN BasePct \div 2
    ELSE IF confidence < 700 THEN BasePct
    ELSE IF confidence < 800 THEN (BasePct * 3) \div 2
    ELSE BasePct * 2

\* get_trade_amount(balance, confidence): max(1, min(balance*pct, balance*0.05)).
GetTradeAmount(balance, confidence) ==
    Max(MinAmount,
        Min((balance * TierPct(confidence)) \div 1000, (balance * MaxPct) \div 1000))

\* _get_pattern_signal: the first detected pattern, or neutral 0.5 when none.
NoPattern == [signal |-> "none", strength |-> 0]

GetPatternSignal(pattern) ==
    IF pattern.signal = "none"
    THEN [signal |-> "neutral", strength |-> 500]
    ELSE [signal |-> pattern.signal, strength |-> pattern.strength]

\* _get_indicator_signal: bullish and bearish votes are counted in halves
\* (rsi 1 -> 2, macd 1.5 -> 3); strength = min(0.8, votes / 2).
GetIndicatorSignal(rsi, macd) ==
    LET bullish == (IF rsi = "oversold" THEN 2 ELSE 0) + (IF macd = "bullish" THEN 3 ELSE 0)
        bearish == (IF rsi = "overbought" THEN 2 ELSE 0) + (IF macd = "bearish" THEN 3 ELSE 0)
    IN  IF bullish > bearish
        THEN [direction |-> "CALL", strength |-> Min(StrengthCap, bullish * 250)]
        ELSE IF bearish > bullish
        THEN [direction |-> "PUT", strength |-> Min(StrengthCap, bearish * 250)]
        ELSE [direction |-> "neutral", strength |-> 500]

CallScore(pattern, rsi, macd) ==
    LET p == GetPatternSignal(pattern)
        i == GetIndicatorSignal(rsi, macd)
    IN  p.strength * (IF p.signal = "CALL" THEN 1 ELSE -1)
        + i.strength * (IF i.direction = "CALL" THEN 1 ELSE -1)

\* Variant: a decision of confidence exactly 0.65 is held back as well.
GenerateSignalHoldsAtThreshold(pattern, rsi, macd) ==
    LET score == CallScore(pattern, rsi, macd)
        final_confidence == Max(ConfFloor, Min(ConfCeil, Abs(score) \div 2))
    IN  IF final_confidence <= HoldBelow
        THEN [direction |-> "HOLD", confidence |-> 500]
        ELSE [direction |-> IF score > 0 THEN "CALL" ELSE "PUT",
              confidence |-> final_confidence]

\* generate_signal: confidence = max(0.5, min(0.9, |call_score| / 2)).
GenerateSignal(pattern, rsi, macd) ==
    LET score == CallScore(pattern, rsi, macd)
        final_confidence == Max(ConfFloor, Min(ConfCeil, Abs(score) \div 2))
    IN  IF final_confidence < HoldBelow
        THEN [direction |-> "HOLD", confidence |-> 500]
        ELSE [direction |-> IF score > 0 THEN "CALL" ELSE "PUT",
              confidence |-> final_confidence]

\* ------------------------------------------------------------------- state
VARIABLES
    sim_mode,        \* PocketOptionClient.simulation_mode (fixed at construction)
    demo,            \* PocketOptionClient.demo (fixed at construction)
    is_running,      \* TradingBot.is_running
    is_trading,      \* TradingBot.is_trading
    min_confidence,  \* TradingBot.min_confidence
    current_asset,   \* TradingBot.current_asset
    current_timeframe, \* TradingBot.current_timeframe
    connected,       \* PocketOptionClient.connected
    balance,         \* PocketOptionClient.balance
    candle_count,    \* per asset: len(market_data[asset]["candles"]), counted up to MinCandles
    market_data,     \* per asset: market_data[asset]["candles"], newest first
    patterns_detected, \* TradingBot.patterns_detected: the window it was computed from
    indicator_values,  \* TradingBot.indicator_values: the window it was computed from
    levels_detected,   \* TradingBot.levels_detected: the window it was computed from
    analysing,       \* the candle handler that is between its analysis assignments
    pending_trades,  \* TradingBot.pending_trades, in the dict's insertion order
    trade_history,   \* TradingBot.trade_history
    db_trades,       \* the rows of table trades, by their UNIQUE trade_id
    tasks,           \* the asyncio tasks that are not finished
    loops,           \* TradingBot.loops: name -> generation of the registered task (0: none)
    accepted,        \* number of trades the venue has accepted so far
    starts,          \* number of start() calls that launched tasks
    starting,        \* number of request threads in start() between lines 51 and 55
    db_errors,       \* number of update_trade_outcome calls that raised so far
    clock,           \* time.time(), as the tournament manager reads it
    last_join_attempt, \* TournamentManager.last_join_attempt
    is_joined,       \* TournamentManager.is_joined
    attempted_at,    \* the clock at the latest attempt that went to the venue (0: none yet)
    last             \* what the latest step did (an observation, not program state)

vars == <<sim_mode, demo, is_running, is_trading, min_confidence, current_asset,
          current_timeframe, connected, balance,
          candle_count, pending_trades, trade_history, db_trades, tasks, loops,
          starts, accepted, db_errors, clock, last_join_attempt, is_joined,
          attempted_at, market_data, patterns_detected, indicator_values,
          levels_detected, analysing, starting, last>>

bot_flags == <<sim_mode, demo, is_trading, min_confidence>>
config == <<sim_mode, demo>>
settings == <<current_asset, current_timeframe>>
analysis == <<patterns_detected, indicator_values, levels_detected>>
market == <<market_data, analysis, analysing>>
trade_state == <<balance, pending_trades, trade_history, db_trades, accepted, db_errors>>
tournament_state == <<clock, last_join_attempt, is_joined, attempted_at>>

\* The inputs of the modelled environment.
ConfidenceInputs == {300, 750, 950, 990}
LiveBalances == {1500}
\* The patterns the detector of candlestick.py can put first: none, a Bullish
\* Engulfing (CALL, 0.9); a Doji (neutral, 0.5) scores like none.
Patterns == {NoPattern, [signal |-> "CALL", strength |-> 900]}
RsiSignals == {"neutral", "oversold"}
MacdTrends == {"neutral"}

RegistryNames == {"main", "tournament", "executor", "learner"} \cup Assets

NoEvent == [op |-> "none"]

\* The analysers' results are kept as the window they were computed from: its
\* asset and the arrival number of its newest candle (0: the initial empty
\* list or dict of lines 39-41).
ComputedFrom(asset, newest) == [asset |-> asset, newest |-> newest]
NoAnalysis == ComputedFrom("", 0)

\* No candle handler is between lines 106 and 108.
NoHandler == [asset |-> "", step |-> 0]

Task(kind, asset, gen, pc, timer) ==
    [kind |-> kind, asset |-> asset, gen |-> gen, pc |-> pc, timer |-> timer]

\* The registry name a task is stored under.
NameOf(t) == IF t.kind = "feed" THEN t.asset ELSE t.kind

Ready(t) == t.kind = "feed" /\ t.pc = "loop" /\ t.timer = 0

\* The bot as server.py line 29 constructs it; is_demo is BOT_DEMO (line 24).
Constructed(is_demo) ==
    /\ sim_mode \in BOOLEAN
    /\ demo = is_demo
    /\ is_running = FALSE
    /\ is_trading = FALSE
    /\ min_confidence = DefaultMinConfidence
    /\ current_asset = DefaultAsset
    /\ current_timeframe = DefaultTimeframe
    /\ connected = FALSE
    /\ balance = 0
    /\ candle_count = [a \in Assets |-> 0]
    /\ market_data = [a \in Assets |-> <<>>]
    /\ patterns_detected = NoAnalysis
    /\ indicator_values = NoAnalysis
    /\ levels_detected = NoAnalysis
    /\ analysing = NoHandler
    /\ pending_trades = <<>>
    /\ trade_history = <<>>
    /\ db_trades = <<>>
    /\ tasks = {}
    /\ loops = [n \in RegistryNames |-> 0]
    /\ starts = 0
    /\ starting = 0
    /\ accepted = 0
    /\ db_errors = 0
    /\ clock = BootTime
    /\ last_join_attempt = 0
    /\ is_joined = FALSE
    /\ attempted_at = 0
    /\ last = NoEvent

Init == Constructed(TRUE)

\* BOT_DEMO unset with an SSID given: a real account; it is simulated when
\* the venue's library is missing (pocket_option.py line 29).
InitReal == Constructed(FALSE)

\* ------------------------------------------------- the pending set and the db
IndexOfId(pend, id) ==
    IF \E i \in 1..Len(pend) : pend[i].trade_id = id
    THEN CHOOSE i \in 1..Len(pend) : pend[i].trade_id = id
    ELSE 0

\* self.pending_trades[trade_id] = {...}: a dict assignment replaces the value
\* of a key that is present and appends a key that is not.
PendingPut(pend, rec) ==
    LET i == IndexOfId(pend, rec.trade_id)
    IN  IF i = 0 THEN Append(pend, rec) ELSE [pend EXCEPT ![i] = rec]

\* del self.pending_trades[trade_id] for every id in ids.
PendingDelete(pend, ids) == SelectSeq(pend, LAMBDA r : r.trade_id \notin ids)

\* Database.save_trade: INSERT into a table whose trade_id is UNIQUE; the
\* insert of a trade_id that has a row raises sqlite3.IntegrityError.
SaveTradeRaises(db, id) == id \in DOMAIN db

SaveTrade(db, id, asset, amount, direction, expiration) ==
    (id :> [asset |-> asset, amount |-> amount, direction |-> direction,
            expiration |-> expiration, outcome |-> "null", profit |-> 0]) @@ db

\* Database.update_trade_outcome: UPDATE ... WHERE trade_id = ?
UpdateTradeOutcome(db, id, outcome, profit) ==
    IF id \in DOMAIN db
    THEN [db EXCEPT ![id].outcome = outcome, ![id].profit = profit]
    ELSE db

\* --------------------------------------------------------- _resolve_trades
\* Variant: a trade is due as soon as the delay is reached.
ExpiredAtDelay(trade) == trade.age >= ResolveDelay

\* time.time() - trade["created_at"] > 5 (line 157).
Expired(trade) == trade.age > ResolveDelay

\* A payout of the whole stake on a win.
ProfitFullPayout(trade, outcome) ==
    IF outcome = "win" THEN trade.amount ELSE -trade.amount

\* Line 159: amount * 0.85 on a win, -amount on a loss.
Profit(trade, outcome) ==
    IF outcome = "win" THEN (trade.amount * PayoutPct) \div 100 ELSE -trade.amount

\* {**trade, "outcome": outcome, "profit": profit}; created_at is not kept.
Settled(trade, outcome) ==
    [asset |-> trade.asset, amount |-> trade.amount, direction |-> trade.direction,
     status |-> trade.status, serial |-> trade.serial,
     outcome |-> outcome, profit |-> Profit(trade, outcome)]

\* The loop of _resolve_trades over list(self.pending_trades.items()), from
\* position i on.  outs gives random.choice's outcome per position; failAt is
\* the position at which db.update_trade_outcome raises (0: it never does).
RECURSIVE SweepFrom(_, _, _, _, _)
SweepFrom(i, pend, st, outs, failAt) ==
    IF i > Len(pend) THEN st
    ELSE IF ~Expired(pend[i]) THEN SweepFrom(i + 1, pend, st, outs, failAt)
    ELSE LET trade == pend[i]
             st1 == [st EXCEPT !.history = Append(@, Settled(trade, outs[i])),
                               !.balance = @ + Profit(trade, outs[i])]
         IN  IF failAt = i
             THEN [st1 EXCEPT !.raised = TRUE]
             ELSE SweepFrom(i + 1, pend,
                            [st1 EXCEPT !.db = UpdateTradeOutcome(@, trade.trade_id, outs[i],
                                                                  Profit(trade, outs[i])),
                                        !.resolved = @ \cup {trade.trade_id}],
                            outs, failAt)

Sweep(outs, failAt) ==
    SweepFrom(1, pending_trades,
              [history |-> trade_history, balance |-> balance, db |-> db_trades,
               resolved |-> {}, raised |-> FALSE],
              outs, failAt)

\* One call of _resolve_trades.  When update_trade_outcome raises, the
\* exception leaves the function before the deletions of lines 167-168.
ResolveTradesSeen(outs, failAt, event) ==
    LET r == Sweep(outs, failAt)
    IN  /\ trade_history' = r.history
        /\ balance' = r.balance
        /\ db_trades' = r.db
        /\ pending_trades' = IF r.raised THEN pending_trades
                             ELSE PendingDelete(pending_trades, r.resolved)
        /\ db_errors' = IF r.raised THEN db_errors + 1 ELSE db_errors
        /\ last' = event

ResolveTrades(outs, failAt) == ResolveTradesSeen(outs, failAt, NoEvent)

SweepOutcomes == [1..Len(pending_trades) -> {"win", "loss"}]

\* The positions at which update_trade_outcome may raise in this sweep.
SweepFailures ==
    {0} \cup {i \in 1..Len(pending_trades) :
                 Expired(pending_trades[i]) /\ db_errors < MaxDbErrors}

\* ------------------------------------------------------- candle processing
\* get_trade_expiration(volatility, pattern_strength), volatility in 1/10000.
GetTradeExpiration(volatility, pattern_strength) ==
    LET base_exp == IF volatility > 20 THEN 60
                    ELSE IF volatility > 10 THEN 120
                    ELSE 300
    IN  IF pattern_strength > 800 THEN base_exp
        ELSE IF pattern_strength > 600 THEN base_exp * 2
        ELSE base_exp * 3

\* The expiration generate_signal puts in a directional signal (line 66).
SignalExpiration(pattern) == GetTradeExpiration(10, GetPatternSignal(pattern).strength)

\* Gates that leave out one half of the test of line 120.
GateIgnoresThreshold(signal, threshold) == signal.direction \notin {"HOLD", "neutral"}

GateIgnoresDirection(signal, threshold) == signal.confidence >= threshold

\* The test of line 120 of _on_new_candle.
Gate(signal, threshold) ==
    /\ signal.direction \notin {"HOLD", "neutral"}
    /\ signal.confidence >= threshold

\* The pending record of lines 141-147; serial numbers the accepted trades.
PendingRecord(id, asset, amount, direction) ==
    [trade_id |-> id, asset |-> asset, amount |-> amount, direction |-> direction,
     age |-> 0, status |-> "pending", serial |-> accepted + 1]

\* Lines 140-148 of _execute_trade, for an accepted trade: the pending record
\* is written first, then db.save_trade, whose IntegrityError leaves the handler.
RecordTrade(id, asset, amount, signal, expiration) ==
    /\ accepted < MaxTrades
    /\ accepted' = accepted + 1
    /\ pending_trades' = PendingPut(pending_trades,
                                    PendingRecord(id, asset, amount, signal.direction))
    /\ db_trades' = IF SaveTradeRaises(db_trades, id) THEN db_trades
                    ELSE SaveTrade(db_trades, id, asset, amount, signal.direction, expiration)
    /\ UNCHANGED <<balance, trade_history, db_errors>>

\* The result of PocketOptionClient.place_trade: a trade_id, or 0 for a call
\* that fails (None, or a result without trade_id).  The simulation always
\* returns str(random.randint(10000, 99999)).
PlaceResults == IF sim_mode THEN TradeIds ELSE TradeIds \cup {0}

\* A test of line 140 that takes every result for an accepted trade.
AcceptedAlways(result) == TRUE

\* The test of line 140: the call returned a result that has a trade_id.
Accepted(result) == result # 0

\* _execute_trade(asset, signal).
ExecuteTrade(asset, signal, expiration) ==
    LET trade_amount == GetTradeAmount(balance, signal.confidence)
    IN  IF trade_amount < MinAmount
        THEN /\ UNCHANGED trade_state
             /\ last' = [op |-> "candle", direction |-> signal.direction,
                         confidence |-> signal.confidence,
                         placed |-> FALSE, result |-> 0]
        ELSE \E result \in PlaceResults :
                /\ IF Accepted(result)
                   THEN RecordTrade(result, asset, trade_amount, signal, expiration)
                   ELSE UNCHANGED trade_state
                /\ last' = [op |-> "candle", direction |-> signal.direction,
                            confidence |-> signal.confidence,
                            placed |-> TRUE, result |-> result]

\* A handler that trades on a signal whether trading is enabled or not.
OnNewCandleIgnoresFlag(asset) ==
    LET n == Min(candle_count[asset] + 1, MinCandles)
    IN  /\ candle_count' = [candle_count EXCEPT ![asset] = n]
        /\ IF n < MinCandles
           THEN /\ UNCHANGED trade_state
                /\ last' = [op |-> "candle", direction |-> "none", confidence |-> 0,
                            placed |-> FALSE, result |-> 0]
           ELSE \E pattern \in Patterns, rsi \in RsiSignals, macd \in MacdTrends :
                   LET signal == GenerateSignal(pattern, rsi, macd)
                   IN  IF Gate(signal, min_confidence)
                       THEN ExecuteTrade(asset, signal, SignalExpiration(pattern))
                       ELSE /\ UNCHANGED trade_state
                            /\ last' = [op |-> "candle", direction |-> signal.direction,
                                        confidence |-> signal.confidence,
                                        placed |-> FALSE, result |-> 0]

\* _on_new_candle(candle) for a candle of the asset; pattern, rsi and macd are
\* what the analysis stage returns for the new window.
OnNewCandle(asset) ==
    LET n == Min(candle_count[asset] + 1, MinCandles)
    IN  /\ candle_count' = [candle_count EXCEPT ![asset] = n]
        /\ IF n < MinCandles
           THEN /\ UNCHANGED trade_state
                /\ last' = [op |-> "candle", direction |-> "none", confidence |-> 0,
                            placed |-> FALSE, result |-> 0]
           ELSE \E pattern \in Patterns, rsi \in RsiSignals, macd \in MacdTrends :
                   LET signal == GenerateSignal(pattern, rsi, macd)
                   IN  IF is_trading /\ Gate(signal, min_confidence)
                       THEN ExecuteTrade(asset, signal, SignalExpiration(pattern))
                       ELSE /\ UNCHANGED trade_state
                            /\ last' = [op |-> "candle",
                                        direction |-> IF is_trading THEN signal.direction
                                                      ELSE "none",
                                        confidence |-> IF is_trading THEN signal.confidence
                                                       ELSE 0,
                                        placed |-> FALSE, result |-> 0]

\* ------------------------------------------------------------ the control API
\* start(loop): lines 49-68.  The four tasks of one start() carry its number
\* as their generation; none of them has run when start() returns.
Start ==
    /\ ~is_running
    /\ starts < MaxStarts
    /\ is_running' = TRUE
    /\ starts' = starts + 1
    /\ tasks' = tasks \cup {Task("main", "", starts + 1, "start", 0),
                            Task("tournament", "", starts + 1, "wait", 0),
                            Task("executor", "", starts + 1, "start", 0),
                            Task("learner", "", starts + 1, "start", 0)}
    /\ loops' = [n \in RegistryNames |-> IF n \in Assets THEN loops[n] ELSE starts + 1]
    /\ last' = [op |-> "start"]
    /\ UNCHANGED <<starting, market, settings, tournament_state, bot_flags, connected, candle_count, trade_state>>

\* A start() that launches a main task although the bot is running.
StartWhileRunningRelaunches ==
    /\ is_running
    /\ tasks' = tasks \cup {Task("main", "", starts, "start", 0)}
    /\ last' = [op |-> "start"]
    /\ UNCHANGED <<starting, market, settings, tournament_state, starts, bot_flags, is_running, connected, candle_count,
                   trade_state, loops>>

\* start(loop) while the bot is running: lines 51-53.
StartWhileRunning ==
    /\ is_running
    /\ last' = [op |-> "start"]
    /\ UNCHANGED <<starting, market, settings, tournament_state, starts, bot_flags, is_running, connected, candle_count,
                   trade_state, tasks, loops>>

\* The tasks stop() cancels: those the registry holds that are not done.
Registered(t) == NameOf(t) \in RegistryNames /\ loops[NameOf(t)] = t.gen

\* A tournament loop that takes a cancellation for an error of the join.
PropagatesButTournament(t) == t.kind # "tournament"

\* What a coroutine does with the CancelledError thrown into it where it is
\* suspended: every handler on the way is an "except Exception", which does
\* not match it, or the "except asyncio.CancelledError: raise" of line 180.
Propagates(t) ==
    CASE t.kind = "main" -> TRUE
      [] t.kind = "tournament" -> TRUE
      [] t.kind = "executor" -> TRUE
      [] t.kind = "learner" -> TRUE
      [] t.kind = "feed" -> TRUE

\* Variant: stop() passes over the candle subscription tasks.
CancelledButFeeds == {t \in tasks : Registered(t) /\ Propagates(t) /\ t.kind # "feed"}

\* The tasks that stop() ends: those the registry holds.
Cancelled == {t \in tasks : Registered(t) /\ Propagates(t)}

\* stop(): lines 198-211.  A cancelled task is at a suspension point and does
\* nothing more.
Stop ==
    /\ is_running
    /\ is_running' = FALSE
    /\ tasks' = tasks \ Cancelled
    /\ loops' = [n \in RegistryNames |-> 0]
    /\ last' = [op |-> "stop"]
    /\ UNCHANGED <<starting, market, settings, tournament_state, starts, bot_flags, connected, candle_count, trade_state>>

\* stop() while the bot is not running: lines 200-201.
StopWhileStopped ==
    /\ ~is_running
    /\ last' = [op |-> "stop"]
    /\ UNCHANGED <<starting, market, settings, tournament_state, starts, bot_flags, is_running, connected, candle_count,
                   trade_state, tasks, loops>>

\* A clamp that has the floor only.
ClampNoCeil(confidence) == Max(MinConfidenceFloor, confidence)

\* max(0.5, min(0.95, confidence)) of line 214.
Clamp(confidence) == Max(MinConfidenceFloor, Min(MinConfidenceCeil, confidence))

\* set_min_confidence(confidence), also reached from update_settings.
SetMinConfidence(confidence) ==
    /\ min_confidence' = Clamp(confidence)
    /\ UNCHANGED <<starting, market, settings, tournament_state, starts, sim_mode, demo, is_trading, is_running, connected, candle_count,
                   trade_state, tasks, loops>>

\* bot_control: the actions start_trading and stop_trading (server.py 90-96).
SetTrading(on) ==
    /\ is_trading # on
    /\ is_trading' = on
    /\ last' = NoEvent
    /\ UNCHANGED <<starting, market, settings, tournament_state, starts, sim_mode, demo, min_confidence, is_running, connected, candle_count,
                   trade_state, tasks, loops>>

\* ------------------------------------------------------------------ the tasks
Replace(t, u) == (tasks \ {t}) \cup {u}

\* The event loop runs the callbacks of its ready queue in the order they were
\* scheduled: a task created after the main task by the same start() has its
\* first turn after the main task's first turn.
AfterMain(t) == \A m \in tasks : (m.kind = "main" /\ m.gen = t.gen) => m.pc # "start"

\* Variant: a loop that begins a turn while another one is under way.
LoopAlwaysFree == TRUE

\* The event loop runs one turn at a time: no turn begins while the turn of
\* another task is under way.
LoopFree == \A u \in tasks : u.pc # "in_turn"

FeedTasks(gen) ==
    {Task("feed", a, gen, IF sim_mode THEN "loop" ELSE "parked", 0) : a \in Assets}

\* The rest of _main_loop after a successful connect (lines 77-86): one feed
\* task per asset is created and registered, then the health loop sleeps.
MainSubscribe(t) ==
    /\ loops' = [n \in RegistryNames |-> IF n \in Assets THEN t.gen ELSE loops[n]]
    /\ tasks' = (IF is_running
                 THEN Replace(t, [t EXCEPT !.pc = "loop"])
                 ELSE tasks \ {t})
                \cup FeedTasks(t.gen)

\* _main_loop up to its first suspension.  In simulation connect() does not
\* suspend (pocket_option.py 32-36); otherwise it awaits the venue.
MainStart(t) ==
    /\ t \in tasks /\ t.kind = "main" /\ t.pc = "start"
    /\ LoopFree
    /\ IF sim_mode
       THEN /\ connected' = TRUE
            /\ balance' = IF demo THEN DemoBalance ELSE 0
            /\ MainSubscribe(t)
       ELSE /\ tasks' = Replace(t, [t EXCEPT !.pc = "connecting"])
            /\ UNCHANGED <<connected, balance, loops>>
    /\ last' = NoEvent
    /\ UNCHANGED <<starting, market, settings, tournament_state, starts, bot_flags, is_running, candle_count, pending_trades, trade_history,
                   db_trades, accepted, db_errors>>

\* A main loop that leaves the bot running when connect() has failed.
RunningAfterConnectKeeps(ok) == is_running

\* Lines 72-75: a failed connect() resets is_running.
RunningAfterConnect(ok) == IF ok THEN is_running ELSE FALSE

\* connect() returns from the venue: pocket_option.py 38-49, trading_bot.py 72-75.
MainConnected(t, ok) ==
    /\ t \in tasks /\ t.kind = "main" /\ t.pc = "connecting"
    /\ LoopFree
    /\ IF ok
       THEN /\ connected' = TRUE
            /\ \E b \in LiveBalances : balance' = b
            /\ MainSubscribe(t)
       ELSE /\ connected' = FALSE
            /\ tasks' = tasks \ {t}
            /\ UNCHANGED <<balance, loops>>
    /\ is_running' = RunningAfterConnect(ok)
    /\ last' = [op |-> "connect", ok |-> ok]
    /\ UNCHANGED <<starting, market, settings, tournament_state, starts, bot_flags, candle_count, pending_trades, trade_history,
                   db_trades, accepted, db_errors>>

\* The health loop of _main_loop wakes: lines 84-86.
MainLoop(t) ==
    /\ t \in tasks /\ t.kind = "main" /\ t.pc = "loop"
    /\ LoopFree
    /\ tasks' = IF is_running THEN tasks ELSE tasks \ {t}
    /\ last' = NoEvent
    /\ UNCHANGED <<starting, market, settings, tournament_state, starts, bot_flags, is_running, connected, candle_count, trade_state,
                   loops>>

\* One turn of _trade_executor_loop: lines 186-190.  An exception raised by
\* _resolve_trades is caught nowhere and ends the task.
ExecutorTurnSeen(t, event) ==
    /\ t \in tasks /\ t.kind = "executor"
    /\ LoopFree
    /\ AfterMain(t)
    /\ IF is_running
       THEN \E outs \in SweepOutcomes, failAt \in SweepFailures :
               /\ ResolveTradesSeen(outs, failAt, event)
               /\ tasks' = IF Sweep(outs, failAt).raised THEN tasks \ {t}
                           ELSE Replace(t, [t EXCEPT !.pc = "loop"])
       ELSE /\ tasks' = tasks \ {t}
            /\ last' = NoEvent
            /\ UNCHANGED <<balance, pending_trades, trade_history, db_trades, db_errors>>
    /\ UNCHANGED <<starting, market, settings, tournament_state, starts, bot_flags, is_running, connected, candle_count, accepted,
                   loops>>

ExecutorTurn(t) == ExecutorTurnSeen(t, NoEvent)

\* One turn of the simulated subscribe_candles: pocket_option.py 56-82.  An
\* exception of the callback is caught and logged (lines 75-78).
FeedTurn(t) ==
    /\ t \in tasks /\ t.kind = "feed" /\ t.pc = "loop" /\ t.timer = 0
    /\ LoopFree
    /\ IF connected
       THEN /\ OnNewCandle(t.asset)
            /\ tasks' = Replace(t, [t EXCEPT !.timer = DefaultTimeframe])
       ELSE /\ tasks' = tasks \ {t}
            /\ last' = NoEvent
            /\ UNCHANGED <<candle_count, trade_state>>
    /\ UNCHANGED <<starting, market, settings, tournament_state, starts, bot_flags, is_running, connected, loops>>

\* One turn of _knowledge_learner_loop: lines 192-196.
LearnerTurn(t) ==
    /\ t \in tasks /\ t.kind = "learner"
    /\ LoopFree
    /\ AfterMain(t)
    /\ tasks' = IF is_running THEN Replace(t, [t EXCEPT !.pc = "loop"]) ELSE tasks \ {t}
    /\ last' = NoEvent
    /\ UNCHANGED <<starting, market, settings, tournament_state, starts, bot_flags, is_running, connected, candle_count,
                   trade_state, loops>>

\* What the venue lets an attempt come to.  In simulation the list holds the
\* Daily Free Tournament and the join succeeds; join_tournament_by_id returns
\* False without calling the venue when the client is not connected
\* (tournament.py 37-39).
JoinOutcomes ==
    IF sim_mode
    THEN IF connected THEN {"joined"} ELSE {"refused"}
    ELSE IF connected THEN {"joined", "refused", "not_found", "raised"}
    ELSE {"refused", "not_found", "raised"}

\* An attempt that is remembered only when it has joined.
JoinDailyFreeTournamentForgetsFailures(outcome) ==
    IF clock - last_join_attempt < CheckInterval
    THEN /\ UNCHANGED <<last_join_attempt, is_joined, attempted_at>>
         /\ last' = [op |-> "join", attempted |-> FALSE, at |-> clock,
                     prev |-> attempted_at, outcome |-> "none"]
    ELSE /\ last_join_attempt' = IF outcome = "joined" THEN clock ELSE last_join_attempt
         /\ is_joined' = (is_joined \/ outcome = "joined")
         /\ attempted_at' = clock
         /\ last' = [op |-> "join", attempted |-> TRUE, at |-> clock,
                     prev |-> attempted_at, outcome |-> outcome]

\* TournamentManager.join_daily_free_tournament: tournament.py 53-84.  The
\* attempt is stamped before the venue is called (line 61); every exception
\* of the attempt is caught (lines 31, 49, 82).
JoinDailyFreeTournament(outcome) ==
    IF clock - last_join_attempt < CheckInterval
    THEN /\ UNCHANGED <<last_join_attempt, is_joined, attempted_at>>
         /\ last' = [op |-> "join", attempted |-> FALSE, at |-> clock,
                     prev |-> attempted_at, outcome |-> "none"]
    ELSE /\ last_join_attempt' = clock
         /\ is_joined' = (is_joined \/ outcome = "joined")
         /\ attempted_at' = clock
         /\ last' = [op |-> "join", attempted |-> TRUE, at |-> clock,
                     prev |-> attempted_at, outcome |-> outcome]

\* One turn of _tournament_loop after a sleep: lines 172-184.
TournamentTurn(t) ==
    /\ t \in tasks /\ t.kind = "tournament"
    /\ LoopFree
    /\ AfterMain(t)
    /\ IF is_running
       THEN /\ \E outcome \in JoinOutcomes : JoinDailyFreeTournament(outcome)
            /\ tasks' = Replace(t, [t EXCEPT !.pc = "loop"])
       ELSE /\ tasks' = tasks \ {t}
            /\ last' = NoEvent
            /\ UNCHANGED <<last_join_attempt, is_joined, attempted_at>>
    /\ UNCHANGED <<starting, market, settings, clock, starts, bot_flags, is_running, connected, candle_count,
                   trade_state, loops>>

\* stop() is called on the thread of the request (server.py 86-88) while the
\* thread of the event loop (server.py 163) is inside a turn of t: the turn
\* goes on, and the cancellation reaches t where it suspends next.
InTurn(t) ==
    /\ t \in tasks /\ Registered(t)
    /\ \/ t.kind = "feed" /\ t.pc = "loop" /\ t.timer = 0 /\ connected
       \/ t.kind = "executor" /\ AfterMain(t)

StopDuringTurn(t) ==
    /\ is_running
    /\ LoopFree
    /\ InTurn(t)
    /\ is_running' = FALSE
    /\ tasks' = (tasks \ Cancelled) \cup {[t EXCEPT !.pc = "in_turn"]}
    /\ loops' = [n \in RegistryNames |-> 0]
    /\ last' = [op |-> "stop"]
    /\ UNCHANGED <<starting, market, settings, tournament_state, starts, bot_flags, connected, candle_count, trade_state>>

\* The rest of the turn stop() ran into, up to the sleep that ends the task.
FinishTurn(t) ==
    /\ t \in tasks /\ t.pc = "in_turn"
    /\ tasks' = tasks \ {t}
    /\ IF t.kind = "feed"
       THEN OnNewCandle(t.asset)
       ELSE /\ \E outs \in SweepOutcomes, failAt \in SweepFailures : ResolveTrades(outs, failAt)
            /\ UNCHANGED <<candle_count, accepted>>
    /\ UNCHANGED <<starting, market, settings, tournament_state, starts, bot_flags, is_running, connected, loops>>

\* -------------------------------------------------------------------- time
Sleepers == {t \in tasks : t.timer > 0}

Young(pend) == {i \in 1..Len(pend) : ~Expired(pend[i])}

\* The time a pending trade needs to reach ResolveDelay, or to pass it.
ToDelay(trade) == IF trade.age < ResolveDelay THEN ResolveDelay - trade.age ELSE 1

\* The instants ahead: the wake-ups of the feeds and the pending trades
\* reaching or passing ResolveDelay.
Ahead == {t.timer : t \in Sleepers}
         \cup {ToDelay(pending_trades[i]) : i \in Young(pending_trades)}

NextInstant == CHOOSE d \in Ahead : \A e \in Ahead : d <= e

AgeBy(pend, d) ==
    [i \in 1..Len(pend) |-> [pend[i] EXCEPT !.age = Min(@ + d, ResolveDelay + 1)]]

\* Time passes once every feed that is due has had its turn.
Tick ==
    /\ \A t \in tasks : ~Ready(t)
    /\ LoopFree
    /\ Ahead # {}
    /\ tasks' = {IF t.timer > 0 THEN [t EXCEPT !.timer = @ - NextInstant] ELSE t : t \in tasks}
    /\ pending_trades' = AgeBy(pending_trades, NextInstant)
    /\ last' = NoEvent
    /\ UNCHANGED <<starting, market, settings, tournament_state, starts, bot_flags, is_running, connected, balance, candle_count,
                   trade_history, db_trades, loops, accepted, db_errors>>

Next ==
    \/ Start
    \/ Stop
    \/ \E c \in ConfidenceInputs : SetMinConfidence(c) /\ last' = NoEvent
    \/ \E on \in BOOLEAN : SetTrading(on)
    \/ \E t \in tasks : MainStart(t)
    \/ \E t \in tasks, ok \in BOOLEAN : MainConnected(t, ok)
    \/ \E t \in tasks : MainLoop(t)
    \/ \E t \in tasks : ExecutorTurn(t)
    \/ \E t \in tasks : FeedTurn(t)
    \/ Tick

Spec == Init /\ [][Next]_vars

\* ------------------------------------------------------ the life of the tasks
\* The wall clock moves on; the timers of Tick count within the step.
MaxElapsed == 18000
ClockSteps == {3599, 3600}

ClockAdvance(d) ==
    /\ clock + d <= BootTime + MaxElapsed
    /\ clock' = clock + d
    /\ last' = NoEvent
    /\ UNCHANGED <<starting, market, settings, last_join_attempt, is_joined, attempted_at, starts, bot_flags, is_running,
                   connected, candle_count, trade_state, tasks, loops>>

\* Every call of the control API and every task, with trading left disabled,
\* over a stretch of time in which the wall clock does not reach its next step.
NextLifecycle ==
    \/ Start
    \/ StartWhileRunning
    \/ Stop
    \/ StopWhileStopped
    \/ \E t \in tasks : StopDuringTurn(t)
    \/ \E t \in tasks : FinishTurn(t)
    \/ \E t \in tasks : MainStart(t)
    \/ \E t \in tasks, ok \in BOOLEAN : MainConnected(t, ok)
    \/ \E t \in tasks : MainLoop(t)
    \/ \E t \in tasks : ExecutorTurn(t)
    \/ \E t \in tasks : LearnerTurn(t)
    \/ \E t \in tasks : TournamentTurn(t)
    \/ \E t \in tasks : FeedTurn(t)
    \/ Tick

SpecLifecycle == Init /\ [][NextLifecycle]_vars

\* The tournament loop over the hours, whatever the feeds and the sweeps do
\* meanwhile: they touch nothing the tournament manager reads.
NextTournament ==
    \/ Start
    \/ Stop
    \/ \E t \in tasks : MainStart(t)
    \/ \E t \in tasks, ok \in BOOLEAN : MainConnected(t, ok)
    \/ \E t \in tasks : TournamentTurn(t)
    \/ \E d \in ClockSteps : ClockAdvance(d)

SpecTournament == Init /\ [][NextTournament]_vars

\* ------------------------------------------------- fair scheduling of the tasks
\* The event loop runs every task that can take a turn, and time advances.
Fairness ==
    /\ WF_vars(Tick)
    /\ WF_vars(\E t \in tasks : MainStart(t))
    /\ WF_vars(\E t \in tasks : ExecutorTurn(t))
    /\ WF_vars(\E t \in tasks : FeedTurn(t))

SpecFair == Spec /\ Fairness

\* --------------------------------------------------- a live feed that delivers
\* The live branch of subscribe_candles only sleeps (pocket_option.py 84-88);
\* here the venue library invokes the registered callback once per candle, as
\* the feed contract of the specification says.  The awaited place_order is
\* taken to return within the turn.
LiveFeedTurn(t) ==
    /\ t \in tasks /\ t.kind = "feed" /\ t.pc = "parked" /\ t.timer = 0
    /\ LoopFree
    /\ connected
    /\ OnNewCandle(t.asset)
    /\ tasks' = Replace(t, [t EXCEPT !.timer = DefaultTimeframe])
    /\ UNCHANGED <<starting, market, settings, tournament_state, starts, bot_flags, is_running, connected, loops>>

LiveReady(t) == t.kind = "feed" /\ t.pc = "parked" /\ t.timer = 0 /\ connected

\* Time passes once every live feed that is due has delivered its candle.
LiveTick ==
    /\ \A t \in tasks : ~LiveReady(t)
    /\ Tick

InitLive == Init /\ ~sim_mode

NextLiveFeed ==
    \/ Start
    \/ Stop
    \/ \E c \in ConfidenceInputs : SetMinConfidence(c) /\ last' = NoEvent
    \/ \E on \in BOOLEAN : SetTrading(on)
    \/ \E t \in tasks : MainStart(t)
    \/ \E t \in tasks, ok \in BOOLEAN : MainConnected(t, ok)
    \/ \E t \in tasks : MainLoop(t)
    \/ \E t \in tasks : ExecutorTurn(t)
    \/ \E t \in tasks : LiveFeedTurn(t)
    \/ LiveTick

SpecLiveFeed == InitLive /\ [][NextLiveFeed]_vars

\* ------------------------------------- set_min_confidence on drawn arguments
MaxSetting == 1200

SettingInputs == (0 - MaxSetting) .. MaxSetting

NextSettings ==
    \E c \in SettingInputs :
        /\ SetMinConfidence(c)
        /\ last' = [op |-> "set_min_confidence", value |-> c]

SpecSettings == Init /\ [][NextSettings]_vars

\* ----------------------------------------- get_trade_amount on drawn arguments
AmountBalances == {0, 50, 100, 1000, 1999, 2000, 2500, 10000, 33333, 1000000}
AmountConfidences == {0, 500, 599, 600, 650, 699, 700, 750, 799, 800, 900, 1000}

NextAmount ==
    \E b \in AmountBalances, c1 \in AmountConfidences, c2 \in AmountConfidences :
        /\ last' = [op |-> "get_trade_amount", balance |-> b,
                    confidence |-> c1, amount |-> GetTradeAmount(b, c1),
                    confidence2 |-> c2, amount2 |-> GetTradeAmount(b, c2)]
        /\ UNCHANGED <<starting, market, settings, tournament_state, sim_mode, demo, is_running, is_trading, min_confidence, connected,
                       balance, candle_count, pending_trades, trade_history, db_trades,
                       tasks, loops, starts, accepted, db_errors>>

SpecAmount == Init /\ [][NextAmount]_vars

\* --------------------------------------------- the HTTP boundary (server.py)
\* str(e) of an exception that leaves a coroutine; an exception built without
\* arguments, like the TimeoutError of future.result, has the empty text.
ExceptionTexts == {"", "connection lost"}

\* How the coroutine handed to the loop ends, as seen by the waiting thread.
Completion(kind, value, text) == [kind |-> kind, value |-> value, text |-> text]
Returned(v) == Completion("returned", v, "")
Raised(m) == Completion("raised", FALSE, m)
TimedOut == Completion("timeout", FALSE, "")

\* What run_coro_in_bot_loop returns: the coroutine's value, or a pair of an
\* error body and a status.
Result(tuple, value, status, error) ==
    [tuple |-> tuple, value |-> value, status |-> status, error |-> error]

\* run_coro_in_bot_loop (lines 34-60).  main_thread: the request is served by
\* the main thread; loop_running: bot_loop.is_running();  alias: in this
\* Python asyncio.TimeoutError is the class future.result raises (3.7 and
\* earlier, 3.11 and later).  A loop that does not run never completes the
\* coroutine.
RunCoroInBotLoop(main_thread, loop_running, alias, c) ==
    IF main_thread
    THEN IF loop_running
         THEN CASE c.kind = "returned" -> Result(FALSE, c.value, 200, "")
                [] c.kind = "timeout" ->
                      IF alias THEN Result(TRUE, FALSE, 504, "Async operation timed out")
                               ELSE Result(TRUE, FALSE, 500, "")
                [] c.kind = "raised" -> Result(TRUE, FALSE, 500, c.text)
         ELSE Result(TRUE, FALSE, 503, "Bot not connected or running")
    ELSE CASE loop_running /\ c.kind = "returned" -> Result(FALSE, c.value, 200, "")
           [] loop_running /\ c.kind = "raised" -> Result(TRUE, FALSE, 500, c.text)
           [] OTHER -> Result(TRUE, FALSE, 500, "")

Response(status, body, text) == [status |-> status, body |-> body, text |-> text]

\* bot_control, action join_tournament: the response made of the result
\* (lines 106-112).
JoinResponse(result) ==
    IF result.tuple THEN Response(result.status, "error", result.error)
    ELSE IF result.value THEN Response(200, "message", "Successfully joined tournament")
    ELSE Response(400, "message", "Failed to join tournament")

\* get_free_tournaments (lines 137-145): the list, or the error pair.
FreeResponse(result) ==
    IF result.tuple THEN Response(result.status, "error", result.error)
    ELSE Response(200, "list", "")

\* The ways join_tournament_by_id (tournament.py 35-51) can end.  is_connected()
\* is called outside the try block and asks the venue client in live mode;
\* every exception of the join itself is turned into False.
JoinCompletions ==
    IF sim_mode THEN {Returned(connected)}
    ELSE IF ~connected THEN {Returned(FALSE)}
    ELSE {Returned(TRUE), Returned(FALSE)} \cup {Raised(m) : m \in ExceptionTexts}

\* The coroutine of a request, scheduled by run_coroutine_threadsafe and not
\* yet finished when the waiting thread gave up.
RequestTask == Task("request", "", 0, "pending", 0)

ControlActions ==
    {"start", "stop", "start_trading", "stop_trading", "join_tournament", "restart", "null"}
KnownActions == {"start", "stop", "start_trading", "stop_trading", "join_tournament"}
TournamentIds == {"", "sim_tournament_1"}
\* The thread that serves the request and the Python it runs on; on a thread
\* that is not the main thread the Python makes no difference.
RequestThread == [main_thread |-> FALSE, alias |-> FALSE]
Contexts == {RequestThread} \cup {[main_thread |-> TRUE, alias |-> a] : a \in BOOLEAN}

Observed(route, name, known, r, c, main_thread, alias) ==
    [op |-> "request", route |-> route, name |-> name, known |-> known,
     status |-> r.status, body |-> r.body, text |-> r.text,
     completion |-> c, main_thread |-> main_thread, alias |-> alias]

\* bot_control, lines 90-96: the trading flag after the request.
ControlFlags(action) ==
    IF action = "start_trading" THEN TRUE
    ELSE IF action = "stop_trading" THEN FALSE
    ELSE is_trading

\* bot_control (lines 77-115) for every action but start and stop, whose
\* calls are the actions Start, StartWhileRunning, Stop and StopWhileStopped.
BotControl(action, id, main_thread, alias) ==
    /\ action \notin {"start", "stop"}
    /\ is_trading' = ControlFlags(action)
    /\ IF action = "join_tournament" /\ id # ""
       THEN \E c \in JoinCompletions \cup {TimedOut} :
               LET r == RunCoroInBotLoop(main_thread, TRUE, alias, c)
               IN  /\ is_joined' = (is_joined \/ (c.kind = "returned" /\ c.value))
                   /\ tasks' = IF c.kind = "timeout" THEN tasks \cup {RequestTask} ELSE tasks
                   /\ last' = Observed("control", action, TRUE, JoinResponse(r), c.kind,
                                       main_thread, alias)
       ELSE /\ UNCHANGED <<is_joined, tasks>>
            /\ last' = Observed("control", action, action \in KnownActions,
                          IF action \in {"start_trading", "stop_trading"}
                          THEN Response(200, "message", "Trading loop")
                          ELSE IF action = "join_tournament"
                          THEN Response(400, "message", "Missing tournament ID")
                          ELSE Response(400, "message", "Unknown action"),
                          "none", main_thread, alias)
    /\ UNCHANGED <<starting, market, settings, clock, last_join_attempt, attempted_at, starts, sim_mode, demo,
                   min_confidence, is_running, connected, candle_count, trade_state, loops>>

\* The coroutine of a request that timed out completes in a later turn of the
\* loop (tournament.py 35-51).
RequestTaskTurn(t) ==
    /\ LoopFree
    /\ t \in tasks /\ t.kind = "request"
    /\ \E c \in JoinCompletions :
          is_joined' = (is_joined \/ (c.kind = "returned" /\ c.value))
    /\ tasks' = tasks \ {t}
    /\ last' = NoEvent
    /\ UNCHANGED <<starting, market, settings, clock, last_join_attempt, attempted_at, starts, bot_flags,
                   is_running, connected, candle_count, trade_state, loops>>

\* get_free_tournaments (lines 137-145); get_all_active_free_tournaments
\* (tournament.py 17-33) returns a list whatever the venue does.
GetFreeTournaments(main_thread, alias) ==
    /\ \E c \in {Returned(TRUE), TimedOut} :
          /\ last' = Observed("free", "list", TRUE,
                              FreeResponse(RunCoroInBotLoop(main_thread, TRUE, alias, c)),
                              c.kind, main_thread, alias)
          /\ tasks' = IF c.kind = "timeout" THEN tasks \cup {RequestTask} ELSE tasks
    /\ UNCHANGED <<starting, market, settings, tournament_state, starts, bot_flags, is_running, connected,
                   candle_count, trade_state, loops>>

\* The value of a settings request: a JSON number n (thousandths for a
\* confidence, seconds for a timeframe), or a text s that is no number.
Value(kind, n, s) == [kind |-> kind, n |-> n, s |-> s]
SettingValues ==
    {Value("number", 300, "300"), Value("text", 0, "GBPUSD_otc")}
SettingNames == {"min_confidence", "current_asset", "current_timeframe", "max_trades", "null"}
KnownSettings == {"min_confidence", "current_asset", "current_timeframe"}

\* Variant: a setting that is not known is taken for the asset.
SettingAssetLenient(setting, value) ==
    IF setting \notin {"min_confidence", "current_timeframe"} THEN value.s ELSE current_asset

\* update_settings, lines 127-129.
SettingAsset(setting, value) ==
    IF setting = "current_asset" THEN value.s ELSE current_asset

\* update_settings (lines 118-134).  float() and int() of a text that is no
\* number raise, and the request ends in the server's error response.
UpdateSettings(setting, value) ==
    /\ min_confidence' = IF setting = "min_confidence" /\ value.kind = "number"
                         THEN Clamp(value.n) ELSE min_confidence
    /\ current_asset' = SettingAsset(setting, value)
    /\ current_timeframe' = IF setting = "current_timeframe" /\ value.kind = "number"
                            THEN value.n ELSE current_timeframe
    /\ last' = Observed("settings", setting, setting \in KnownSettings,
                  IF setting \notin KnownSettings
                  THEN Response(400, "message", "Unknown setting")
                  ELSE IF setting # "current_asset" /\ value.kind # "number"
                  THEN Response(500, "error", "could not convert")
                  ELSE Response(200, "message", "set"),
                  "none", FALSE, FALSE)
    /\ UNCHANGED <<starting, market, tournament_state, starts, sim_mode, demo, is_trading, is_running, connected,
                   candle_count, trade_state, tasks, loops>>

NextServer ==
    \/ Start
    \/ Stop
    \/ \E action \in ControlActions, id \in TournamentIds, context \in Contexts :
          /\ action = "join_tournament" \/ context = RequestThread
          /\ BotControl(action, id, context.main_thread, context.alias)
    \/ \E context \in Contexts : GetFreeTournaments(context.main_thread, context.alias)
    \/ \E setting \in SettingNames, value \in SettingValues : UpdateSettings(setting, value)
    \/ \E t \in tasks : RequestTaskTurn(t)
    \/ \E t \in tasks : MainStart(t)
    \/ \E t \in tasks, ok \in BOOLEAN : MainConnected(t, ok)

SpecServer == Init /\ [][NextServer]_vars

\* ----------------------------------------------------------- get_trade_stats
Wins(hist) == Cardinality({i \in 1..Len(hist) : hist[i].outcome = "win"})

\* Variant: the total of get_status (line 231), which counts the pending
\* trades as well.
GetTradeStatsCountsPending(hist, pend) ==
    LET total_trades == Len(hist) + Len(pend)
        total_wins == Wins(hist)
    IN  [total_trades |-> total_trades,
         total_wins |-> total_wins,
         total_losses |-> total_trades - total_wins,
         win_rate |-> IF total_trades > 0 THEN (total_wins * 1000) \div total_trades ELSE 0,
         pending_trades |-> Len(pend)]

\* get_trade_stats (lines 246-257); win_rate in thousandths, rounded down.
GetTradeStats(hist, pend) ==
    LET total_trades == Len(hist)
        total_wins == Wins(hist)
    IN  [total_trades |-> total_trades,
         total_wins |-> total_wins,
         total_losses |-> total_trades - total_wins,
         win_rate |-> IF total_trades > 0 THEN (total_wins * 1000) \div total_trades ELSE 0,
         pending_trades |-> Len(pend)]

\* GET /api/trades/history (server.py 154-158).
TradeStatsRequest ==
    /\ last' = [op |-> "get_trade_stats", stats |-> GetTradeStats(trade_history, pending_trades)]
    /\ UNCHANGED <<starting, market, settings, tournament_state, starts, bot_flags, is_running, connected,
                   candle_count, trade_state, tasks, loops>>

NextStats ==
    \/ Next
    \/ TradeStatsRequest

SpecStats == Init /\ [][NextStats]_vars

\* ------------------------------------------ the trades table read back (db.py)
MaxDbSeconds == 2
DbTradeIds == FirstTradeId .. (FirstTradeId + 2)
DbAmounts == {100, 250}
DbDirections == {"CALL", "PUT"}

\* The row save_trade inserts, with the columns the table fills in itself
\* (lines 69-81): the AUTOINCREMENT id and created_at, CURRENT_TIMESTAMP, which
\* counts whole seconds.  A REAL column gives back the float it was given.
InsertTrade(db, id, asset, amount, direction, expiration, now) ==
    LET saved == SaveTrade(db, id, asset, amount, direction, expiration)
    IN  [saved EXCEPT ![id] = @ @@ [rowid |-> Cardinality(DOMAIN db) + 1,
                                    created_at |-> now]]

\* dict(row) of the row of a trade_id.
RowDict(db, id) == [trade_id |-> id] @@ db[id]

\* get_recent_trades(1), lines 129-136: SELECT * FROM trades ORDER BY
\* created_at DESC LIMIT 1.  SQL leaves the order of rows with the same
\* created_at open: each of the latest rows can be the one returned.
GetRecentTrades1(db) ==
    {<<RowDict(db, id)>> :
        id \in {i \in DOMAIN db : \A j \in DOMAIN db : db[j].created_at <= db[i].created_at}}

\* save_trade with a trade_id that has no row yet, followed by
\* get_recent_trades(1).
SaveThenReadBack(id, asset, amount, direction) ==
    /\ id \notin DOMAIN db_trades
    /\ db_trades' = InsertTrade(db_trades, id, asset, amount, direction, DefaultTimeframe, clock)
    /\ \E recent \in GetRecentTrades1(db_trades') :
          last' = [op |-> "save_trade",
                   saved |-> [trade_id |-> id, asset |-> asset, amount |-> amount,
                              direction |-> direction],
                   recent |-> recent]
    /\ UNCHANGED <<starting, market, settings, clock, last_join_attempt, is_joined, attempted_at, starts, bot_flags,
                   is_running, connected, candle_count, balance, pending_trades,
                   trade_history, accepted, db_errors, tasks, loops>>

\* A second passes between two calls.
SecondPasses ==
    /\ clock < BootTime + MaxDbSeconds
    /\ clock' = clock + 1
    /\ last' = NoEvent
    /\ UNCHANGED <<starting, market, settings, last_join_attempt, is_joined, attempted_at, starts, bot_flags,
                   is_running, connected, candle_count, trade_state, tasks, loops>>

NextDb ==
    \/ \E id \in DbTradeIds, asset \in Assets, amount \in DbAmounts, direction \in DbDirections :
          SaveThenReadBack(id, asset, amount, direction)
    \/ SecondPasses

SpecDb == Init /\ [][NextDb]_vars

\* ------------------------------------------------------- the analysis stage
\* Prices are in units of 0.0001.  A window holds the newest candle first.
Candle(open, high, low, close) == [open |-> open, high |-> high, low |-> low, close |-> close]
CandleKinds ==
    {Candle(9995, 10020, 9990, 10015),     \* bullish
     Candle(10010, 10012, 9980, 10000),    \* bearish
     Candle(10005, 10030, 9970, 10005)}    \* no body

MinPatternCandles == 3        \* candlestick.py:17
PatternLookback == 10         \* candlestick.py:40
Sensitivity == 3              \* levels.py:12
LevelCount == 3               \* levels.py:12
ToleranceNum == 5             \* levels.py:7 (0.0005 = 5 / 10000)
ToleranceDen == 10000         \* levels.py:7

IsBullish(c) == c.close > c.open
IsBearish(c) == c.close < c.open

\* _detect_patterns (candlestick.py 50-76) for a candle and the one before it.
DetectPatterns(current, prev) ==
    (IF IsBearish(prev) /\ IsBullish(current)
        /\ current.close > prev.open /\ current.open < prev.close
     THEN <<[name |-> "Bullish Engulfing", signal |-> "CALL", strength |-> 900]>>
     ELSE <<>>)
    \o
    (IF Abs(current.close - current.open) * 10 < current.high - current.low
        /\ current.high - current.low > 1
     THEN <<[name |-> "Doji", signal |-> "neutral", strength |-> 500]>>
     ELSE <<>>)

\* Lines 29-38: the matches of one candle, with its Python index i.
Found(detected, i) ==
    [k \in DOMAIN detected |->
        [pattern |-> detected[k].name, signal |-> detected[k].signal,
         strength |-> detected[k].strength, candle_index |-> i]]

\* The loop of analyze_candles from position p on (Python index p - 1): the
\* candle is examined first, the test `i >= 10` of line 40 comes after it.
RECURSIVE PatternsFrom(_, _)
PatternsFrom(candles, p) ==
    IF p > Len(candles) - 2 THEN <<>>
    ELSE Found(DetectPatterns(candles[p], candles[p + 1]), p - 1)
         \o (IF p - 1 >= PatternLookback THEN <<>> ELSE PatternsFrom(candles, p + 1))

\* analyze_candles (candlestick.py 15-42).
AnalyzeCandles(candles) ==
    IF Len(candles) < MinPatternCandles THEN <<>> ELSE PatternsFrom(candles, 1)

\* calculate_all (indicators.py 16-40): the names of the indicators in the
\* result, none for a window of fewer than 20 candles.
CalculateAll(candles) ==
    IF Len(candles) < MinCandles THEN {}
    ELSE {"rsi", "sma_10", "sma_20", "ema_10", "ema_20", "macd", "bollinger",
          "stochastic", "atr"}

\* The swing points of lines 25-34, from position p on.
IsResistance(c, p, s) ==
    \A j \in 1..s : c[p].high >= c[p - j].high /\ c[p].high >= c[p + j].high
IsSupport(c, p, s) ==
    \A j \in 1..s : c[p].low <= c[p - j].low /\ c[p].low <= c[p + j].low

RECURSIVE PotentialLevels(_, _, _)
PotentialLevels(c, p, s) ==
    IF p > Len(c) - s THEN <<>>
    ELSE (IF IsResistance(c, p, s)
          THEN <<[price |-> c[p].high, type |-> "resistance"]>> ELSE <<>>)
         \o (IF IsSupport(c, p, s)
             THEN <<[price |-> c[p].low, type |-> "support"]>> ELSE <<>>)
         \o PotentialLevels(c, p + 1, s)

\* list.sort(key=price) of line 38; the sort is stable.
RECURSIVE InsertByPrice(_, _)
InsertByPrice(sorted, x) ==
    IF sorted = <<>> THEN <<x>>
    ELSE IF Head(sorted).price <= x.price
         THEN <<Head(sorted)>> \o InsertByPrice(Tail(sorted), x)
         ELSE <<x>> \o sorted

RECURSIVE SortByPrice(_)
SortByPrice(seq) ==
    IF seq = <<>> THEN <<>>
    ELSE InsertByPrice(SortByPrice(SubSeq(seq, 1, Len(seq) - 1)), seq[Len(seq)])

\* The clustering of lines 40-61: a level joins the cluster when it is within
\* tolerance * current_price of the cluster's last member.
RECURSIVE Clusters(_, _, _, _)
Clusters(levels, i, cluster, current_price) ==
    IF i > Len(levels) THEN <<cluster>>
    ELSE IF Abs(levels[i].price - cluster[Len(cluster)].price) * ToleranceDen
               < ToleranceNum * current_price
         THEN Clusters(levels, i + 1, Append(cluster, levels[i]), current_price)
         ELSE <<cluster>> \o Clusters(levels, i + 1, <<levels[i]>>, current_price)

RECURSIVE PriceSum(_)
PriceSum(cluster) ==
    IF cluster = <<>> THEN 0 ELSE Head(cluster).price + PriceSum(Tail(cluster))

\* A finished cluster (lines 51-60, 65-74).  Its price is the mean
\* price_sum / touches.  max(set(types), key=count) gives the more frequent
\* type and, when both are as frequent, the one that comes first in the set,
\* which depends on the string hashes of the process: tie.
MergedLevel(cluster, s, tie) ==
    LET r == Cardinality({i \in 1..Len(cluster) : cluster[i].type = "resistance"})
        u == Len(cluster) - r
    IN  [price_sum |-> PriceSum(cluster),
         touches |-> Len(cluster),
         type |-> IF r > u THEN "resistance" ELSE IF u > r THEN "support" ELSE tie,
         strength |-> Min(1000, (Len(cluster) * 1000) \div s)]

\* abs(level["price"] - current_price) times the touches.
Distance(level, current_price) == Abs(level.price_sum - current_price * level.touches)

\* list.sort(key=distance) of lines 90-91; the sort is stable.
RECURSIVE InsertByDistance(_, _, _)
InsertByDistance(sorted, x, cur) ==
    IF sorted = <<>> THEN <<x>>
    ELSE IF Distance(Head(sorted), cur) * x.touches <= Distance(x, cur) * Head(sorted).touches
         THEN <<Head(sorted)>> \o InsertByDistance(Tail(sorted), x, cur)
         ELSE <<x>> \o sorted

RECURSIVE SortByDistance(_, _)
SortByDistance(seq, cur) ==
    IF seq = <<>> THEN <<>>
    ELSE InsertByDistance(SortByDistance(SubSeq(seq, 1, Len(seq) - 1), cur), seq[Len(seq)], cur)

FirstOf(seq, count) == SubSeq(seq, 1, Min(count, Len(seq)))

\* find_support_resistance (levels.py 11-96).
FindSupportResistance(candles, sensitivity, count, tie) ==
    IF Len(candles) < sensitivity * 2
    THEN [support |-> <<>>, resistance |-> <<>>]
    ELSE LET current_price == candles[1].close
             potential == SortByPrice(PotentialLevels(candles, sensitivity + 1, sensitivity))
             clusters == IF potential = <<>> THEN <<>>
                         ELSE Clusters(potential, 2, <<potential[1]>>, current_price)
             merged == [i \in 1..Len(clusters) |-> MergedLevel(clusters[i], sensitivity, tie)]
             below == SelectSeq(merged, LAMBDA l :
                         l.type = "support" /\ l.price_sum < current_price * l.touches)
             above == SelectSeq(merged, LAMBDA l :
                         l.type = "resistance" /\ l.price_sum > current_price * l.touches)
         IN  [support |-> FirstOf(SortByDistance(below, current_price), count),
              resistance |-> FirstOf(SortByDistance(above, current_price), count)]

\* The windows the three functions are run on: every window of up to
\* MaxShortWindow candles, and longer ones that repeat three candles.
MaxShortWindow == 7
MaxLongWindow == 21
Repeating(n, k) ==
    [i \in 1..n |-> CASE (i + k) % 3 = 0 -> Candle(9995, 10020, 9990, 10015)
                      [] (i + k) % 3 = 1 -> Candle(10010, 10012, 9980, 10000)
                      [] OTHER -> Candle(10005, 10030, 9970, 10005)]
Windows ==
    UNION {[1..n -> CandleKinds] : n \in 0..MaxShortWindow}
    \cup {Repeating(n, k) : n \in (MaxShortWindow + 1)..MaxLongWindow, k \in 0..2}

\* The three functions of lines 106-108 on a window; they read nothing but
\* the window, so they are run once, on the bot as constructed.
Analyse(candles, tie) ==
    /\ last = NoEvent
    /\ last' = [op |-> "analysis", length |-> Len(candles), newest |-> FirstOf(candles, 3),
                patterns |-> AnalyzeCandles(candles),
                indicators |-> CalculateAll(candles),
                levels |-> FindSupportResistance(candles, Sensitivity, LevelCount, tie)]
    /\ UNCHANGED <<starting, market, settings, tournament_state, starts, bot_flags, is_running, connected,
                   candle_count, trade_state, tasks, loops>>

NextAnalysis ==
    \E candles \in Windows, tie \in {"support", "resistance"} : Analyse(candles, tie)

SpecAnalysis == Init /\ [][NextAnalysis]_vars

\* ------------------------------------------- generate_signal on drawn inputs
SignalStrengths == {0, 100, 299, 300, 500, 650, 799, 800, 900, 1000}
SignalPatterns ==
    {NoPattern} \cup {[signal |-> g, strength |-> h] :
                        g \in {"CALL", "PUT", "neutral"}, h \in SignalStrengths}
\* The signal of indicators["rsi"] and the trend of indicators["macd"];
\* "missing" stands for a map without the key.
SignalRsi == {"neutral", "oversold", "overbought", "missing"}
SignalMacd == {"neutral", "bullish", "bearish", "missing"}

GenerateSignalCall(pattern, rsi, macd) ==
    /\ last' = [op |-> "generate_signal", pattern |-> pattern, rsi |-> rsi, macd |-> macd,
                score |-> CallScore(pattern, rsi, macd),
                signal |-> GenerateSignal(pattern, rsi, macd)]
    /\ UNCHANGED <<starting, market, settings, tournament_state, starts, bot_flags, is_running, connected,
                   candle_count, trade_state, tasks, loops>>

NextSignal ==
    \E pattern \in SignalPatterns, rsi \in SignalRsi, macd \in SignalMacd :
        GenerateSignalCall(pattern, rsi, macd)

SpecSignal == Init /\ [][NextSignal]_vars

\* -------------------------------- trading with stop() on the request thread
NextSweep ==
    \/ Next
    \/ \E t \in tasks : StopDuringTurn(t)
    \/ \E t \in tasks : FinishTurn(t)

SpecSweep == Init /\ [][NextSweep]_vars

\* ---------------------------------------------- trading with sweeps observed
\* The number of pending trades that have exceeded the resolution delay.
Due(pend) == Cardinality({i \in 1..Len(pend) : Expired(pend[i])})

NextIdle ==
    \/ Start
    \/ Stop
    \/ \E c \in ConfidenceInputs : SetMinConfidence(c) /\ last' = NoEvent
    \/ \E on \in BOOLEAN : SetTrading(on)
    \/ \E t \in tasks : MainStart(t)
    \/ \E t \in tasks, ok \in BOOLEAN : MainConnected(t, ok)
    \/ \E t \in tasks : MainLoop(t)
    \/ \E t \in tasks : ExecutorTurnSeen(t, [op |-> "sweep", due |-> Due(pending_trades)])
    \/ \E t \in tasks : FeedTurn(t)
    \/ Tick

SpecIdle == Init /\ [][NextIdle]_vars

\* ------------------------------------------------------- the candle windows
WindowCap == 200            \* trading_bot.py:99

\* A candle as the handler sees it: its asset, its timeframe and its number
\* in the order of arrival at the asset's window.
CandleEvent(asset, timeframe, arrival) ==
    [asset |-> asset, timeframe |-> timeframe, arrival |-> arrival]

\* The number of candles that have arrived for the asset so far.
Arrivals(window) == IF window = <<>> THEN 0 ELSE window[1].arrival

\* A window that, once full, keeps its oldest candles and drops the new one.
StoreCandleKeepsOldest(window, candle) == FirstOf(window \o <<candle>>, WindowCap)

\* Lines 98-99: candles.insert(0, candle), then candles[:200].
StoreCandle(window, candle) == FirstOf(<<candle>> \o window, WindowCap)

MaxArrivals == 201

\* _on_new_candle(candle) with trading disabled, as one turn of the event
\* loop: lines 88-108.  The three analysers run on the window just stored.
OnNewCandleStored(asset) ==
    LET candle == CandleEvent(asset, current_timeframe, Arrivals(market_data[asset]) + 1)
        window == StoreCandle(market_data[asset], candle)
        from == ComputedFrom(asset, Arrivals(window))
    IN  /\ ~is_trading
        /\ analysing = NoHandler
        /\ candle.arrival <= MaxArrivals
        /\ market_data' = [market_data EXCEPT ![asset] = window]
        /\ candle_count' = [candle_count EXCEPT ![asset] = Min(Len(window), MinCandles)]
        /\ IF Len(window) < MinCandles
           THEN UNCHANGED analysis
           ELSE /\ patterns_detected' = from
                /\ indicator_values' = from
                /\ levels_detected' = from
        /\ last' = [op |-> "candle", direction |-> "none", confidence |-> 0,
                    placed |-> FALSE, result |-> 0]
        /\ UNCHANGED <<starting, analysing, settings, tournament_state, starts, bot_flags, is_running,
                       connected, trade_state, tasks, loops>>

NextWindow == \E asset \in Assets : OnNewCandleStored(asset)

SpecWindow == Init /\ [][NextWindow]_vars

\* ---------------------------------------------- the analysis and its getter
MaxMarketCandles == 21

\* _on_new_candle(candle) with trading disabled, up to the first assignment
\* of the analysis: lines 88-106.  A candle that leaves the window short of
\* MinCandles ends the handler at line 103.
CandleArrives(asset) ==
    LET candle == CandleEvent(asset, current_timeframe, Arrivals(market_data[asset]) + 1)
        window == StoreCandle(market_data[asset], candle)
    IN  /\ ~is_trading
        /\ analysing = NoHandler
        /\ candle.arrival <= MaxMarketCandles
        /\ market_data' = [market_data EXCEPT ![asset] = window]
        /\ candle_count' = [candle_count EXCEPT ![asset] = Min(Len(window), MinCandles)]
        /\ IF Len(window) < MinCandles
           THEN UNCHANGED <<patterns_detected, analysing>>
           ELSE /\ patterns_detected' = ComputedFrom(asset, Arrivals(window))
                /\ analysing' = [asset |-> asset, step |-> 1]
        /\ last' = NoEvent
        /\ UNCHANGED <<starting, indicator_values, levels_detected, settings, tournament_state, starts,
                       bot_flags, is_running, connected, trade_state, tasks, loops>>

\* Lines 107 and 108 of the handler that is under way: the event loop runs
\* them without yielding, the request thread runs beside them.
AnalysisStep ==
    LET from == ComputedFrom(analysing.asset, Arrivals(market_data[analysing.asset]))
    IN  /\ analysing # NoHandler
        /\ IF analysing.step = 1
           THEN /\ indicator_values' = from
                /\ analysing' = [analysing EXCEPT !.step = 2]
                /\ UNCHANGED levels_detected
           ELSE /\ levels_detected' = from
                /\ analysing' = NoHandler
                /\ UNCHANGED indicator_values
        /\ last' = NoEvent
        /\ UNCHANGED <<starting, market_data, patterns_detected, candle_count, settings, tournament_state,
                       starts, bot_flags, is_running, connected, trade_state, tasks, loops>>

\* get_market_analysis() (lines 236-244), called by GET /api/market/analysis
\* on a request thread (server.py 148-151): the three analysis fields as they
\* are, and the window of current_asset.
GetMarketAnalysis ==
    /\ last' = [op |-> "get_market_analysis",
                patterns |-> patterns_detected,
                levels |-> levels_detected,
                indicators |-> indicator_values,
                candles |-> ComputedFrom(current_asset, Arrivals(market_data[current_asset]))]
    /\ UNCHANGED <<starting, market, candle_count, settings, tournament_state, starts, bot_flags,
                   is_running, connected, trade_state, tasks, loops>>

NextMarket ==
    \/ \E asset \in Assets : CandleArrives(asset)
    \/ AnalysisStep
    \/ GetMarketAnalysis

SpecMarket == Init /\ [][NextMarket]_vars

\* ------------------------------------------------- trading on a real account
SpecReal == InitReal /\ [][Next]_vars

\* ------------------------------------------- start() on two request threads
\* bot_control runs bot.start(bot_loop) on the thread of its request
\* (server.py 82-84).  Line 51 of start() on one thread: the bot is not running.
StartCheck ==
    /\ ~is_running
    /\ starts + starting < MaxStarts
    /\ starting' = starting + 1
    /\ last' = NoEvent
    /\ UNCHANGED <<market, settings, tournament_state, starts, bot_flags, is_running, connected,
                   candle_count, trade_state, tasks, loops>>

\* Lines 55-68 of start() on a thread that has passed line 51.
StartLaunch ==
    /\ starting > 0
    /\ starting' = starting - 1
    /\ is_running' = TRUE
    /\ starts' = starts + 1
    /\ tasks' = tasks \cup {Task("main", "", starts + 1, "start", 0),
                            Task("tournament", "", starts + 1, "wait", 0),
                            Task("executor", "", starts + 1, "start", 0),
                            Task("learner", "", starts + 1, "start", 0)}
    /\ loops' = [n \in RegistryNames |-> IF n \in Assets THEN loops[n] ELSE starts + 1]
    /\ last' = [op |-> "start"]
    /\ UNCHANGED <<market, settings, tournament_state, bot_flags, connected, candle_count,
                   trade_state>>

NextRace ==
    \/ StartCheck
    \/ StartLaunch
    \/ Stop
    \/ \E t \in tasks : MainStart(t)
    \/ \E t \in tasks, ok \in BOOLEAN : MainConnected(t, ok)
    \/ \E t \in tasks : MainLoop(t)
    \/ \E t \in tasks : ExecutorTurn(t)
    \/ \E t \in tasks : LearnerTurn(t)
    \/ \E t \in tasks : TournamentTurn(t)
    \/ \E t \in tasks : FeedTurn(t)
    \/ Tick

SpecRace == Init /\ [][NextRace]_vars

\* --------------------------------------------- the handler with its window
\* One candle of the simulated subscribe_candles (pocket_option.py 56-78) and
\* the whole of _on_new_candle for it (trading_bot.py 88-121): the candle is
\* stored, the analysers run, and the signal is acted upon.  The sleep of
\* line 81 is left out: the asset's next candle may come at any later step.
FeedTurnStored(t) ==
    LET candle == CandleEvent(t.asset, current_timeframe, Arrivals(market_data[t.asset]) + 1)
        window == StoreCandle(market_data[t.asset], candle)
        from == ComputedFrom(t.asset, Arrivals(window))
    IN  /\ t \in tasks /\ Ready(t)
        /\ LoopFree
        /\ connected
        /\ analysing = NoHandler
        /\ candle.arrival <= MaxMarketCandles
        /\ market_data' = [market_data EXCEPT ![t.asset] = window]
        /\ IF Len(window) < MinCandles
           THEN UNCHANGED analysis
           ELSE /\ patterns_detected' = from
                /\ indicator_values' = from
                /\ levels_detected' = from
        /\ OnNewCandle(t.asset)
        /\ UNCHANGED <<starting, analysing, settings, tournament_state, starts, bot_flags,
                       is_running, connected, tasks, loops>>

NextGate ==
    \/ Start
    \/ \E c \in ConfidenceInputs : SetMinConfidence(c) /\ last' = NoEvent
    \/ \E on \in BOOLEAN : SetTrading(on)
    \/ \E t \in tasks : MainStart(t)
    \/ \E t \in tasks, ok \in BOOLEAN : MainConnected(t, ok)
    \/ \E t \in tasks : FeedTurnStored(t)

SpecGate == Init /\ [][NextGate]_vars

\* ===================================================================== claims
\* The accepted trades are numbered 1..accepted by the serial of their record.
InPending(n) == \E i \in 1..Len(pending_trades) : pending_trades[i].serial = n
InHistory(n) == \E i \in 1..Len(trade_history) : trade_history[i].serial = n
Settlements(n) == Cardinality({i \in 1..Len(trade_history) : trade_history[i].serial = n})

\* C1: every trade registered in the pending set is settled at most once: its
\* record is appended to trade_history at most once (and the balance adjusted
\* with it), over any interleaving of candles, sweeps and stop()/start().
C1_SettledAtMostOnce == \A n \in 1..accepted : Settlements(n) <= 1

\* C2: between task turns no trade is in pending_trades and in trade_history
\* at the same time, also after a sweep that update_trade_outcome ended.
C2_PendingXorSettled == \A n \in 1..accepted : ~(InPending(n) /\ InHistory(n))

\* C3: candle processing calls place_trade and opens a trade only for a
\* decision whose direction is CALL or PUT and whose confidence is at least
\* the min_confidence of that moment; a HOLD decision opens none.
C3_OpenOnlyThroughGate ==
    (last.op = "candle" /\ last.placed)
        => (last.direction \in {"CALL", "PUT"} /\ last.confidence >= min_confidence)

C3_Witness ==
    /\ last.op = "candle" /\ last.placed /\ last.result # 0
    /\ InPending(accepted)
    /\ min_confidence = MinConfidenceFloor

\* C4: while min_confidence is 0.95 no candle event opens a trade: the event
\* calls place_trade for no decision and leaves pending_trades unchanged.
C4_NoTradeAtCeiling ==
    [][(min_confidence = MinConfidenceCeil /\ last'.op = "candle")
          => (~last'.placed /\ pending_trades' = pending_trades /\ accepted' = accepted)]_vars

C4_Witness ==
    /\ min_confidence = MinConfidenceCeil
    /\ is_trading
    /\ last.op = "candle" /\ last.direction = "CALL" /\ ~last.placed

\* C5: min_confidence is 0.75 until it is set and within [0.5, 0.95] always;
\* set_min_confidence(x) stores 0.5 for x < 0.5, 0.95 for x > 0.95, x otherwise.
C5_MinConfidenceClamped ==
    /\ min_confidence >= 500 /\ min_confidence <= 950
    /\ last.op = "none" => min_confidence = 750
    /\ last.op = "set_min_confidence" =>
          min_confidence = (IF last.value < 500 THEN 500
                            ELSE IF last.value > 950 THEN 950
                            ELSE last.value)

C5_Witness ==
    /\ last.op = "set_min_confidence"
    /\ last.value > 950
    /\ min_confidence = 950

\* C6: for every balance >= 0 and confidence c, get_trade_amount(balance, c)
\* is at least min($1, balance) and at most 5% of the balance.
C6_AmountWithinClamp ==
    last.op = "get_trade_amount" =>
        /\ last.amount >= Min(100, last.balance)
        /\ last.amount * 100 <= last.balance * 5

\* C7: for a fixed balance >= 0, get_trade_amount is non-decreasing in the
\* confidence.
C7_AmountMonotone ==
    (last.op = "get_trade_amount" /\ last.confidence <= last.confidence2)
        => last.amount <= last.amount2

C7_Witness ==
    /\ last.op = "get_trade_amount"
    /\ last.confidence < last.confidence2
    /\ last.amount < last.amount2

C9_EveryAcceptedTradeRecorded ==
    /\ \A n \in 1..accepted : InPending(n) \/ InHistory(n)
    /\ Cardinality(DOMAIN db_trades) = accepted

\* C10: while the bot stays Running, every pending trade is eventually out of
\* pending_trades and in trade_history.
C10_EventuallySettled ==
    \A n \in 1..MaxTrades :
        InPending(n) ~> ((InHistory(n) /\ ~InPending(n)) \/ ~is_running)

RECURSIVE ProfitSum(_, _)
ProfitSum(hist, from) ==
    IF from > Len(hist) THEN 0 ELSE hist[from].profit + ProfitSum(hist, from + 1)

\* C11: every settlement records the outcome win or loss and the profit
\* +0.85 * amount on a win, -amount on a loss, and the balance changes by
\* exactly the profits recorded in the step.
C11_SettlementAdjustsBalance ==
    [][Len(trade_history') > Len(trade_history) =>
          /\ \A i \in (Len(trade_history) + 1)..Len(trade_history') :
                LET r == trade_history'[i]
                IN  /\ r.outcome \in {"win", "loss"}
                    /\ r.profit = IF r.outcome = "win" THEN (r.amount * 85) \div 100
                                  ELSE 0 - r.amount
          /\ balance' = balance + ProfitSum(trade_history', Len(trade_history) + 1)]_vars

C11_Witness ==
    /\ Len(trade_history) = 2
    /\ trade_history[1].outcome = "win" /\ trade_history[1].profit > 0
    /\ trade_history[2].outcome = "loss" /\ trade_history[2].profit < 0
    /\ balance = DemoBalance + trade_history[1].profit + trade_history[2].profit

\* C12: start() while is_running is true creates no task and leaves the task
\* registry and every field of the bot unchanged.
C12_StartWhileRunningIsNoOp ==
    [][(is_running /\ last'.op = "start")
          => UNCHANGED <<sim_mode, demo, is_running, is_trading, min_confidence, settings, connected,
                         candle_count, trade_state, tournament_state, tasks, loops, starts>>]_vars

C12_Witness ==
    /\ last.op = "start"
    /\ is_running
    /\ \E t \in tasks : t.kind = "feed"

\* The bot after a start() whose connect() failed, until the next start():
\* stop() empties the registry, the failed main loop leaves its entry.
FailedStart == ~is_running /\ loops["main"] # 0

\* C13: after a start() whose connect() fails the bot is stopped: is_running
\* is false, no candle subscription task exists, and no candle is processed
\* and no trade opened until a later start().
C13_FailedConnectStops ==
    /\ (last.op = "connect" /\ ~last.ok) => FailedStart
    /\ FailedStart =>
          /\ \A t \in tasks : t.kind # "feed"
          /\ last.op # "candle"
          /\ ~connected

C13_Witness ==
    /\ last.op = "connect" /\ ~last.ok
    /\ starts = 2
    /\ accepted = 0

\* C14: between start() and the success of connect() no task of the running
\* state does its work: no resolution sweep has run and no tournament join
\* has been attempted by the tasks of that start().
C14_NothingRunsBeforeConnect ==
    \A m \in tasks :
        (m.kind = "main" /\ m.pc \in {"start", "connecting"}) =>
            \A t \in tasks :
                t.gen = m.gen =>
                    /\ t.kind = "executor" => t.pc = "start"
                    /\ t.kind = "tournament" => t.pc = "wait"

\* C15: after stop() returns, whatever start(), connect and stop() came
\* before, is_running is false, the task registry is empty and every task
\* that has not finished has been cancelled.
C15_StopCancelsEverything ==
    last.op = "stop" =>
        /\ ~is_running
        /\ \A n \in RegistryNames : loops[n] = 0
        /\ \A t \in tasks : t.pc = "in_turn"

\* The pending trades without the time that has passed since their placement,
\* which no task writes.
Undated(ps) == [i \in DOMAIN ps |-> [ps[i] EXCEPT !.age = 0]]

\* The bot from the return of a stop() that stopped it until the next start().
StoppedByStop == ~is_running /\ \A n \in RegistryNames : loops[n] = 0

\* C16: from the return of stop() until the next start() no task changes the
\* balance, pending_trades, trade_history or the candle windows.
C16_NoMutationAfterStop ==
    [][StoppedByStop =>
          /\ UNCHANGED <<balance, trade_history, candle_count>>
          /\ Undated(pending_trades') = Undated(pending_trades)]_vars

SameTask(t, u) == u.kind = t.kind /\ u.asset = t.asset /\ u.gen = t.gen

\* C18: a task that stop() cancels where it is suspended is gone with the
\* stop, and a task cancelled inside a turn only completes that turn: no
\* cancelled task takes up its loop again.
C18_CancellationIsTerminal ==
    [][/\ (is_running /\ last'.op = "stop") =>
             \A t \in tasks : Registered(t) =>
                 \A u \in tasks' : SameTask(t, u) => u.pc = "in_turn"
       /\ \A t \in tasks : t.pc = "in_turn" =>
             \A u \in tasks' : SameTask(t, u) => u = t]_vars

C18_Witness ==
    /\ last.op = "stop"
    /\ connected
    /\ starts = 2
    /\ tasks = {}

\* C19: an exception raised inside the resolution sweep does not end the
\* resolution task: the task is still there after the sweep.
C19_SweepFailureKeepsTask ==
    [][db_errors' > db_errors =>
          \A t \in tasks : (t.kind = "executor" /\ Registered(t)) =>
              \E u \in tasks' : SameTask(t, u)]_vars

\* C20: two consecutive attempts of join_daily_free_tournament that go to the
\* venue are at least check_interval apart, however the earlier one ended, and
\* a call inside the window changes nothing and does not reach the venue.
C20_JoinRateLimited ==
    last.op = "join" =>
        /\ last.attempted =>
              /\ last.prev = 0 \/ last.at - last.prev >= 14400
              /\ attempted_at = last.at
        /\ ~last.attempted =>
              /\ last.at - last.prev < 14400
              /\ last.outcome = "none"
              /\ attempted_at = last.prev

C20_Witness ==
    /\ last.op = "join" /\ last.attempted
    /\ last.prev # 0
    /\ last.outcome # "joined"
    /\ ~is_joined

\* C21: a control operation takes effect only inside a turn of the event
\* loop: right after a start() or stop() has changed the bot, no turn of a
\* task is under way, since the loop runs one turn at a time.
C21_ControlInsideLoopTurns ==
    last.op \in {"start", "stop"} => LoopFree

\* C22: a request whose call into the bot loop does not complete within the
\* 10 s gets a timeout error that differs from the error it gets for any
\* other failure of the call, and the coroutine stays scheduled in the loop.
C22_TimeoutIsDistinct ==
    (last.op = "request" /\ last.completion = "timeout") =>
        /\ \A m \in ExceptionTexts :
              JoinResponse(RunCoroInBotLoop(last.main_thread, TRUE, last.alias, Raised(m)))
                 # Response(last.status, last.body, last.text)
        /\ RequestTask \in tasks

\* C23: a control request with an unknown action and a settings request with
\* an unknown setting name are answered with status 400 and change no field
\* of the bot and nothing in the task registry.
C23_UnknownInputChangesNothing ==
    [][(last'.op = "request" /\ ~last'.known) =>
          /\ last'.status = 400
          /\ UNCHANGED <<sim_mode, demo, is_running, is_trading, min_confidence, settings,
                         connected, candle_count, trade_state, tournament_state, tasks,
                         loops, starts>>]_vars

C23_Witness ==
    /\ last.op = "request" /\ ~last.known
    /\ last.route = "settings"
    /\ is_running /\ connected /\ is_trading
    /\ current_asset # DefaultAsset

\* C24: get_trade_stats() reports as total_trades the number of records in
\* trade_history, wins and losses that add up to it, each the number of the
\* records with that outcome, and as win_rate the share of the wins, 0 for an
\* empty history; the call changes nothing.
C24_TradeStatsConsistent ==
    [][last'.op = "get_trade_stats" =>
          LET st == last'.stats
              losses == Cardinality({i \in 1..Len(trade_history) :
                                        trade_history[i].outcome = "loss"})
          IN  /\ st.total_trades = Len(trade_history)
              /\ st.total_wins + st.total_losses = st.total_trades
              /\ st.total_losses = losses
              /\ st.total_trades > 0 =>
                    /\ st.win_rate * st.total_trades <= st.total_wins * 1000
                    /\ st.total_wins * 1000 < (st.win_rate + 1) * st.total_trades
              /\ st.total_trades = 0 => st.win_rate = 0
              /\ UNCHANGED <<sim_mode, demo, is_running, is_trading, min_confidence,
                             settings, connected, candle_count, trade_state,
                             tournament_state, tasks, loops, starts>>]_vars

C24_Witness ==
    /\ last.op = "get_trade_stats"
    /\ last.stats.total_trades = 2
    /\ last.stats.total_wins = 1
    /\ last.stats.win_rate = 500
    /\ Len(pending_trades) = 0

\* C25: get_recent_trades(1) called right after a save_trade with a new
\* trade_id returns one record, and its trade_id, asset, amount and direction
\* are those of the trade just saved, also when an earlier trade was saved in
\* the same second.
C25_SaveThenReadBack ==
    last.op = "save_trade" =>
        /\ Len(last.recent) = 1
        /\ last.recent[1].trade_id = last.saved.trade_id
        /\ last.recent[1].asset = last.saved.asset
        /\ last.recent[1].amount = last.saved.amount
        /\ last.recent[1].direction = last.saved.direction

\* C26: on a window of fewer than 3 candles the pattern detector returns no
\* pattern, and on a window of fewer than 20 candles the indicator calculator
\* returns no indicator and the level detector returns empty support and
\* resistance lists.
C26_ShortWindowsGiveEmpty ==
    last.op = "analysis" =>
        /\ last.length < 3 => last.patterns = <<>>
        /\ last.length < 20 =>
              /\ last.indicators = {}
              /\ last.levels.support = <<>>
              /\ last.levels.resistance = <<>>

\* C27: generate_signal returns a direction in {CALL, PUT, HOLD} and a
\* confidence in [0.5, 0.9]; it returns HOLD, with confidence 0.5, exactly
\* when half the magnitude of the combined score is below 0.65, and otherwise
\* CALL for a positive and PUT for a negative combined score.
C27_SignalContract ==
    last.op = "generate_signal" =>
        LET d == last.signal.direction
            c == last.signal.confidence
        IN  /\ d \in {"CALL", "PUT", "HOLD"}
            /\ 500 <= c /\ c <= 900
            /\ d = "HOLD" <=> Abs(last.score) < 1300
            /\ d = "HOLD" => c = 500
            /\ d # "HOLD" =>
                  /\ last.score > 0 => d = "CALL"
                  /\ last.score < 0 => d = "PUT"
                  /\ c * 2 <= Abs(last.score) /\ Abs(last.score) <= c * 2 + 1

C27_Witness ==
    /\ last.op = "generate_signal"
    /\ last.signal.direction = "PUT"
    /\ last.signal.confidence = 650
    /\ last.pattern.signal = "neutral"

\* A resolution sweep that is under way: stop() found the task inside it.
Sweeping == {t \in tasks : t.kind = "executor" /\ t.pc = "in_turn"}

\* C28: no turn of a task begins while a sweep is under way, so no second
\* sweep starts and no candle handler writes until the sweep is over:
\* pending_trades, trade_history, the balance and the trade rows stay as they
\* are in every step the sweep does not end in.
C28_SweepsSerialized ==
    [][/\ Cardinality({t \in tasks' : t.pc = "in_turn"}) <= 1
       /\ \A t \in Sweeping :
             t \in tasks' =>
                /\ Undated(pending_trades') = Undated(pending_trades)
                /\ UNCHANGED <<trade_history, balance, db_trades, candle_count>>]_vars

C28_Witness ==
    /\ Sweeping # {}
    /\ \E t \in tasks : t.kind = "executor" /\ t.pc # "in_turn"
    /\ \E i \in 1..Len(pending_trades) : Expired(pending_trades[i])
    /\ is_running

\* C29: a resolution sweep run when no pending trade is older than the 5 s
\* of the resolution delay leaves pending_trades, trade_history, the balance
\* and the persisted trade rows unchanged.
C29_IdleSweepChangesNothing ==
    [][(last'.op = "sweep" /\ \A i \in 1..Len(pending_trades) : pending_trades[i].age <= 5)
          => UNCHANGED <<pending_trades, trade_history, balance, db_trades>>]_vars

C29_Witness ==
    /\ last.op = "sweep" /\ last.due = 0
    /\ trade_history # <<>>
    /\ \E i \in 1..Len(pending_trades) : pending_trades[i].age = 5

\* C30: every record of pending_trades has status "pending" and carries no
\* outcome; every record of trade_history has status "settled", an outcome of
\* win or loss and a profit; and a record, once in trade_history, is never
\* modified: the history only grows at its end.
C30_RecordStatuses ==
    /\ [](/\ \A i \in 1..Len(pending_trades) :
                /\ pending_trades[i].status = "pending"
                /\ "outcome" \notin DOMAIN pending_trades[i]
          /\ \A i \in 1..Len(trade_history) :
                /\ trade_history[i].status = "settled"
                /\ trade_history[i].outcome \in {"win", "loss"}
                /\ trade_history[i].profit \in Int)
    /\ [][/\ Len(trade_history') >= Len(trade_history)
          /\ SubSeq(trade_history', 1, Len(trade_history)) = trade_history]_vars

\* C31: after any sequence of candle events every asset's window holds at
\* most 200 candles and is ordered newest first by arrival; a candle that
\* arrives is put at index 0 and the candles before it keep their order, and
\* at a full window exactly the oldest one is dropped.
C31_WindowNewestFirst ==
    /\ [](\A a \in Assets :
             /\ Len(market_data[a]) <= 200
             /\ \A i \in 1..Len(market_data[a]) - 1 :
                   market_data[a][i].arrival > market_data[a][i + 1].arrival)
    /\ [][\A a \in Assets :
             market_data'[a] # market_data[a] =>
                /\ market_data'[a][1].arrival > Arrivals(market_data[a])
                /\ Len(market_data'[a]) = IF Len(market_data[a]) < 200
                                          THEN Len(market_data[a]) + 1 ELSE 200
                /\ \A i \in 2..Len(market_data'[a]) :
                      market_data'[a][i] = market_data[a][i - 1]]_vars

C31_Witness ==
    \E a \in Assets :
        /\ Len(market_data[a]) = 200
        /\ market_data[a][1].arrival = 201
        /\ market_data[a][200].arrival = 2

\* C32: whenever get_market_analysis() is answered, the patterns, the levels
\* and the indicators it returns were all computed from one and the same
\* candle window.
C32_SnapshotIsWhole ==
    last.op = "get_market_analysis" =>
        /\ last.patterns = last.indicators
        /\ last.indicators = last.levels

\* C33: the analysis belongs to the active asset: a step that changes
\* patterns_detected, indicator_values or levels_detected computes it from a
\* window of current_asset, and get_market_analysis() returns patterns,
\* levels and indicators of the asset whose candles it returns.
C33_SnapshotOfActiveAsset ==
    /\ [][/\ patterns_detected' # patterns_detected => patterns_detected'.asset = current_asset
          /\ indicator_values' # indicator_values => indicator_values'.asset = current_asset
          /\ levels_detected' # levels_detected => levels_detected'.asset = current_asset]_vars
    /\ [](last.op = "get_market_analysis" =>
             \A f \in {last.patterns, last.levels, last.indicators} :
                f = NoAnalysis \/ f.asset = last.candles.asset)

\* C34: every match analyze_candles returns has a candle_index in 0..9, and
\* the matches come in ascending candle_index order, the most recent candle
\* first.
C34_PatternLookback ==
    last.op = "analysis" =>
        /\ \A k \in 1..Len(last.patterns) : last.patterns[k].candle_index \in 0..9
        /\ \A k \in 1..Len(last.patterns) - 1 :
              last.patterns[k].candle_index <= last.patterns[k + 1].candle_index

\* C35: the balance is never negative, and a trade that is opened has an
\* amount no greater than the balance at the time it is opened.
C35_BalanceCoversTrades ==
    /\ [](balance >= 0)
    /\ [][accepted' > accepted =>
             \A i \in 1..Len(pending_trades') :
                pending_trades'[i].serial = accepted' => pending_trades'[i].amount <= balance]_vars

\* C36: across any number of stop()/start() cycles the balance is the one
\* obtained at the first successful connect plus the profits of all the
\* trades in trade_history.
C36_BalanceIsFirstPlusProfits ==
    LET first == IF sim_mode THEN (IF demo THEN 1000000 ELSE 0)
                 ELSE CHOOSE b \in LiveBalances : TRUE
    IN  (connected \/ trade_history # <<>>) =>
            balance = first + ProfitSum(trade_history, 1)

\* C37: after any sequence of start(), connect success or failure and stop()
\* at most one resolution task, one tournament task, one learning task and
\* one feed task per asset are alive, and every alive task is in the registry.
C37_OneTaskOfEachKind ==
    /\ \A k \in {"executor", "tournament", "learner"} :
          Cardinality({t \in tasks : t.kind = k}) <= 1
    /\ \A a \in Assets : Cardinality({t \in tasks : t.kind = "feed" /\ t.asset = a}) <= 1
    /\ \A t \in tasks : Registered(t)

\* C38: of two start requests handled at the same time only one launches
\* tasks: a start() launches its set of tasks only while the bot is not
\* running, so the test of is_running and its setting cannot pass for both.
C38_OneStartLaunches ==
    [][starts' > starts => (~is_running /\ starts' = starts + 1)]_vars

\* C39: a candle that is processed while trading is disabled, or that leaves
\* its asset's window with fewer than 20 candles, calls place_trade for
\* nothing and adds nothing to pending_trades, and is stored at the head of
\* the window all the same.
C39_NoTradeWhenOffOrShort ==
    [][\A a \in Assets :
          (market_data'[a] # market_data[a] /\ (~is_trading \/ Len(market_data'[a]) < 20)) =>
             /\ last'.op = "candle" /\ ~last'.placed
             /\ UNCHANGED <<pending_trades, accepted, db_trades>>
             /\ Len(market_data'[a]) = Len(market_data[a]) + 1
             /\ market_data'[a][1].asset = a
             /\ market_data'[a][1].arrival = Arrivals(market_data[a]) + 1
             /\ SubSeq(market_data'[a], 2, Len(market_data'[a])) = market_data[a]]_vars

C39_Witness ==
    /\ last.op = "candle" /\ ~last.placed
    /\ ~is_trading
    /\ pending_trades # <<>>
    /\ \E a \in Assets : Len(market_data[a]) = 21 /\ patterns_detected = ComputedFrom(a, 21)

====
